---- MODULE Spec2Model ----
(***************************************************************************)
(* Model of the mask-derivation logic of the CCD reduction guide:          *)
(*   notebooks/08-01-Identifying-hot-pixels.ipynb  (hot-pixel notebook,    *)
(*       lines 1-319 of the file, and the cosmic-ray notebook that follows *)
(*       it in the same file, lines 321-839);                              *)
(*   notebooks/03-06-Combine-darks-for-use-in-later-calibration-steps.ipynb *)
(*       (the loops that combine the calibrated darks per exposure time).  *)
(* Python variables are names bound to references (env); numpy arrays live *)
(* in a heap, so that two names bound to the same array share storage.     *)
(* Files are entries of disk.  Each statement of a code cell is one step.  *)
(***************************************************************************)
EXTENDS Integers, Sequences, FiniteSets, TLC

VARIABLES pc, env, heap, disk, ghost, call

vars == <<pc, env, heap, disk, ghost, call>>

(***************************************************************************)
(* Bounds of the model.                                                    *)
(***************************************************************************)
\* pixel rows of every image
NRows == 3
\* pixel columns of the light-sensitive region (4096 in the notebook's data)
NCols == 1
\* overscan columns of the 1000 s dark, to the right of the sensitive region
NOverscan == 1
\* at most this many pixels of an input frame differ from its background
MaxHot == 1

(***************************************************************************)
(* Floating point values are modelled as exact fractions <<num, den>> with *)
(* den >= 0; den = 0 encodes the IEEE specials: <<1,0>> = inf,             *)
(* <<-1,0>> = -inf, <<0,0>> = nan.                                          *)
(***************************************************************************)
Abs(x) == IF x < 0 THEN -x ELSE x

Sign(x) == IF x < 0 THEN -1 ELSE IF x > 0 THEN 1 ELSE 0

RECURSIVE GCD(_, _)
GCD(a, b) == IF b = 0 THEN a ELSE GCD(b, a % b)

Norm(q) ==
    LET n == IF q[2] < 0 THEN -q[1] ELSE q[1]
        d == Abs(q[2])
    IN  IF d = 0 THEN <<Sign(n), 0>>
        ELSE IF n = 0 THEN <<0, 1>>
        ELSE LET g == GCD(Abs(n), d) IN <<n \div g, d \div g>>

IsNaN(q) == q[1] = 0 /\ q[2] = 0

IsFinite(q) == q[2] > 0

FMul(x, y) ==
    IF IsNaN(x) \/ IsNaN(y) THEN <<0, 0>> ELSE Norm(<<x[1] * y[1], x[2] * y[2]>>)

Recip(y) == IF y[1] < 0 THEN <<-y[2], -y[1]>> ELSE <<y[2], y[1]>>

\* true division: x / 0 is +-inf, 0 / 0 is nan (numpy warns, it raises nothing)
FDiv(x, y) == FMul(x, Recip(y))

\* x > y on floats: any comparison with nan is False
FGT(x, y) ==
    /\ ~IsNaN(x)
    /\ ~IsNaN(y)
    /\ x[1] * y[2] > y[1] * x[2]

(***************************************************************************)
(* numpy arrays: a dtype, a 2-D shape and one value per index; bool arrays *)
(* hold 0 / 1, uint8 arrays 0 .. 255, float arrays fractions.              *)
(***************************************************************************)
Indices(nr, nc) == (0 .. (nr - 1)) \X (0 .. (nc - 1))

NDArray(dtype, nr, nc, data) ==
    [dtype |-> dtype, nrows |-> nr, ncols |-> nc, data |-> data]

ArrIdx(a) == Indices(a.nrows, a.ncols)

Shape(a) == <<a.nrows, a.ncols>>

\* truth value of an element of a bool or integer array
Truthy(a, p) == a.data[p] # 0

NoFile == [dtype |-> "absent"]

None == 0

(***************************************************************************)
(* Array operations used by the notebooks.                                 *)
(***************************************************************************)
\* CCDData.multiply / CCDData.divide by a scalar quantity: elementwise, new array
multiply(a, q) ==
    NDArray("float", a.nrows, a.ncols, [p \in ArrIdx(a) |-> FMul(a.data[p], q)])

divide(a, q) ==
    NDArray("float", a.nrows, a.ncols, [p \in ArrIdx(a) |-> FDiv(a.data[p], q)])

Min(x, y) == IF x < y THEN x ELSE y

\* a[:, :n] : the first n columns of every row (all of them when n exceeds the width)
SliceCols(a, n) ==
    LET w == Min(n, a.ncols)
    IN  NDArray(a.dtype, a.nrows, w, [p \in Indices(a.nrows, w) |-> a.data[p]])

\* a slip that would write ~(a.data <= t): it differs from > at nan elements only
GreaterThan_not_le(a, t) ==
    NDArray("bool", a.nrows, a.ncols,
            [p \in ArrIdx(a) |->
                IF IsNaN(a.data[p]) \/ FGT(a.data[p], <<t, 1>>) THEN 1 ELSE 0])

\* a slip that would write a.data < t
GreaterThan_reversed(a, t) ==
    NDArray("bool", a.nrows, a.ncols,
            [p \in ArrIdx(a) |-> IF FGT(<<t, 1>>, a.data[p]) THEN 1 ELSE 0])

\* a.data > t for a float array and a number t: a new bool array
GreaterThan(a, t) ==
    NDArray("bool", a.nrows, a.ncols,
            [p \in ArrIdx(a) |-> IF FGT(a.data[p], <<t, 1>>) THEN 1 ELSE 0])

\* a.astype('uint8') of a bool or integer array
astype_uint8(a) ==
    NDArray("uint8", a.nrows, a.ncols, [p \in ArrIdx(a) |-> a.data[p] % 256])

\* an exception raised by an array operation, in place of its result
Raised(exc) == [dtype |-> exc]

IsArray(a) == a.dtype \in {"float", "bool", "uint8"}

\* numpy broadcasting of two 2-D shapes: along each axis equal lengths, or one is 1
Broadcastable(a, b) ==
    /\ a.nrows = b.nrows \/ a.nrows = 1 \/ b.nrows = 1
    /\ a.ncols = b.ncols \/ a.ncols = 1 \/ b.ncols = 1

Max(x, y) == IF x > y THEN x ELSE y

\* the element of a that broadcasting pairs with index p of the result
BroadcastAt(a, p) ==
    a.data[<<IF a.nrows = 1 THEN 0 ELSE p[1], IF a.ncols = 1 THEN 0 ELSE p[2]>>]

\* result dtype of a binary operation on bool / uint8 arrays
Promote(a, b) == IF a.dtype = "bool" /\ b.dtype = "bool" THEN "bool" ELSE "uint8"

RECURSIVE BitOr(_, _)
BitOr(x, y) ==
    IF x = 0 THEN y
    ELSE IF y = 0 THEN x
    ELSE Max(x % 2, y % 2) + 2 * BitOr(x \div 2, y \div 2)

RECURSIVE BitAndNot(_, _)
BitAndNot(x, y) ==
    IF x = 0 THEN 0
    ELSE (IF x % 2 = 1 /\ y % 2 = 0 THEN 1 ELSE 0) + 2 * BitAndNot(x \div 2, y \div 2)

RECURSIVE BitAnd(_, _)
BitAnd(x, y) ==
    IF x = 0 \/ y = 0 THEN 0
    ELSE (IF x % 2 = 1 /\ y % 2 = 1 THEN 1 ELSE 0) + 2 * BitAnd(x \div 2, y \div 2)

\* a slip that would write & for | : the elementwise bitwise AND
bitwise_and(a, b) ==
    IF ~Broadcastable(a, b) THEN Raised("ValueError")
    ELSE LET nr == Max(a.nrows, b.nrows)
             nc == Max(a.ncols, b.ncols)
         IN  NDArray(Promote(a, b), nr, nc,
                     [p \in Indices(nr, nc) |-> BitAnd(BroadcastAt(a, p), BroadcastAt(b, p))])

\* a slip that would remove the second mask from the first: a & ~b on the mask bits
bitwise_and_not(a, b) ==
    IF ~Broadcastable(a, b) THEN Raised("ValueError")
    ELSE LET nr == Max(a.nrows, b.nrows)
             nc == Max(a.ncols, b.ncols)
         IN  NDArray(Promote(a, b), nr, nc,
                     [p \in Indices(nr, nc) |-> BitAndNot(BroadcastAt(a, p), BroadcastAt(b, p))])

\* a | b on bool / uint8 arrays: the elementwise bitwise OR, operands broadcast;
\* shapes that do not broadcast raise ValueError
bitwise_or(a, b) ==
    IF ~Broadcastable(a, b) THEN Raised("ValueError")
    ELSE LET nr == Max(a.nrows, b.nrows)
             nc == Max(a.ncols, b.ncols)
         IN  NDArray(Promote(a, b), nr, nc,
                     [p \in Indices(nr, nc) |-> BitOr(BroadcastAt(a, p), BroadcastAt(b, p))])

\* a + b on bool / uint8 arrays: logical or of two bool arrays, else the sum modulo 256
add(a, b) ==
    IF ~Broadcastable(a, b) THEN Raised("ValueError")
    ELSE LET nr == Max(a.nrows, b.nrows)
             nc == Max(a.ncols, b.ncols)
             dt == Promote(a, b)
         IN  NDArray(dt, nr, nc,
                     [p \in Indices(nr, nc) |->
                        IF dt = "bool" THEN Max(BroadcastAt(a, p), BroadcastAt(b, p))
                        ELSE (BroadcastAt(a, p) + BroadcastAt(b, p)) % 256])

\* target[index] = False.  A bool index selects the elements where it is True and
\* must have the target's shape.  An integer index selects along the first axis:
\* every value v of the index addresses the whole row v of the target.
IndexAssignFalse(target, index) ==
    IF index.dtype = "bool"
    THEN IF Shape(index) # Shape(target) THEN Raised("IndexError")
         ELSE [target EXCEPT !.data =
                  [p \in ArrIdx(target) |-> IF index.data[p] = 1 THEN 0 ELSE target.data[p]]]
    ELSE LET rows == {index.data[p] : p \in ArrIdx(index)}
         IN  IF \E r \in rows : r >= target.nrows THEN Raised("IndexError")
             ELSE [target EXCEPT !.data =
                      [p \in ArrIdx(target) |-> IF p[1] \in rows THEN 0 ELSE target.data[p]]]

(***************************************************************************)
(* Program constants of the hot-pixel notebook.                            *)
(***************************************************************************)
\* gain 1.5 electron / adu, as the fraction GainNum / GainDen
GainNum == 3
GainDen == 2
Gain == <<GainNum, GainDen>>
Exp90 == 90
Exp1000 == 1000
\* dark_1000.data > 1
LongThreshold == 1
\* dark_90.data > 4
ShortThreshold == 4
\* dark_1000[:, :4096] keeps the light-sensitive columns
TrimCols == NCols

F_dark_90 == "combined_dark_90.000.fit"
F_dark_1000 == "master_dark_exposure_1000.0.fit.bz2"
F_mask_dark == "mask_from_dark_current.fits"
F_mask_ccdmask == "mask_from_ccdmask.fits"
F_science == "kelt-16-b-S001-R001-C084-r.fit"
F_out == "example-with-cosmic-rays.fits"

Files == {F_dark_90, F_dark_1000, F_mask_dark, F_mask_ccdmask, F_science, F_out}

EmptyDisk == [f \in Files |-> NoFile]

PyNames ==
    {"dark_90", "dark_1000", "hot_pixels", "bad_hot_pixels", "mask_as_ccd",
     "dark_mask", "ccdmask_mask", "combined_mask", "ccd.mask", "new_ccd.mask",
     "cr_mask", "ccd", "Out", "crs", "new_ccd_no_premask.mask", "crs_no_premask"}

EmptyEnv == [n \in PyNames |-> None]

\* the array a name is bound to
Val(n) == heap[env[n]]

Bound(n) == env[n] # None

\* bind name n to a newly allocated array a
BindNew(n, a) ==
    /\ heap' = Append(heap, a)
    /\ env' = [env EXCEPT ![n] = Len(heap) + 1]

NoGhost ==
    [crarray |-> None, raw_mask |-> None, applied_mask |-> None,
     lacosmic |-> <<>>, detect |-> <<>>]

\* the application of one operation to explicit operands, outside the notebooks' flow
NoCall == [fn |-> "none", args |-> <<>>, result |-> None]

(***************************************************************************)
(* Input frames of the hot-pixel notebook: combined darks holding average  *)
(* counts, a background level everywhere except at up to MaxHot pixels.    *)
(***************************************************************************)
Background == [short |-> 1, long |-> 10, overscan |-> 0]

\* 240 counts in 90 s is exactly 4 e/s, 500 counts is 8.33 e/s
ShortHotCounts == {240, 500}

\* 2000 counts in 1000 s is 3 e/s, 95000 counts is 142.5 e/s
LongHotCounts == {2000, 95000}

HotSets(idx) == {S \in SUBSET idx : Cardinality(S) <= MaxHot}

CountArrays(nr, nc, bg, levels) ==
    UNION {{NDArray("float", nr, nc,
                    [p \in Indices(nr, nc) |-> IF p \in S THEN <<f[p], 1>> ELSE <<bg, 1>>])
              : f \in [S -> levels]}
            : S \in HotSets(Indices(nr, nc))}

\* the 1000 s dark carries NOverscan overscan columns right of the sensitive region
WithOverscan(a) ==
    NDArray(a.dtype, a.nrows, a.ncols + NOverscan,
            [p \in Indices(a.nrows, a.ncols + NOverscan) |->
                IF p[2] < a.ncols THEN a.data[p] ELSE <<Background.overscan, 1>>])

(***************************************************************************)
(* 08-01 Identifying hot pixels, one action per statement.                 *)
(***************************************************************************)
InitHot ==
    /\ pc = "read_dark_90"
    /\ env = EmptyEnv
    /\ heap = <<>>
    /\ ghost = NoGhost
    /\ call = NoCall
    /\ \E s \in CountArrays(NRows, NCols, Background.short, ShortHotCounts),
          l \in CountArrays(NRows, NCols, Background.long, LongHotCounts) :
          disk = [EmptyDisk EXCEPT ![F_dark_90] = s, ![F_dark_1000] = WithOverscan(l)]

\* dark_90 = CCDData.read(ex2_path / 'combined_dark_90.000.fit')
ReadDark90 ==
    /\ pc = "read_dark_90"
    /\ disk[F_dark_90] # NoFile
    /\ BindNew("dark_90", disk[F_dark_90])
    /\ pc' = "read_dark_1000"
    /\ UNCHANGED <<call, disk, ghost>>

\* dark_1000 = CCDData.read('master_dark_exposure_1000.0.fit.bz2')
ReadDark1000 ==
    /\ pc = "read_dark_1000"
    /\ disk[F_dark_1000] # NoFile
    /\ BindNew("dark_1000", disk[F_dark_1000])
    /\ pc' = "trim_dark_1000"
    /\ UNCHANGED <<call, disk, ghost>>

\* dark_1000 = ccdp.trim_image(dark_1000[:, :4096])
trim_image(a) == SliceCols(a, TrimCols)

TrimDark1000 ==
    /\ pc = "trim_dark_1000"
    /\ BindNew("dark_1000", trim_image(Val("dark_1000")))
    /\ pc' = "dark_current_90"
    /\ UNCHANGED <<call, disk, ghost>>

\* the dark-current estimate: gain * counts / exposure time
dark_current(counts, gain, exposure_time) ==
    divide(multiply(counts, gain), exposure_time)

\* dark_90 = dark_90.multiply(1.5 * u.electron / u.adu).divide(90 * u.second)
dark_current_90(a) == dark_current(a, Gain, <<Exp90, 1>>)

\* a slip that would divide the 1000 s frame by the 90 s exposure time
dark_current_1000_wrong_exposure(a) == dark_current(a, Gain, <<Exp90, 1>>)

\* dark_1000 = dark_1000.multiply(1.5 * u.electron / u.adu).divide(1000 * u.second)
dark_current_1000(a) == dark_current(a, Gain, <<Exp1000, 1>>)

DarkCurrent90 ==
    /\ pc = "dark_current_90"
    /\ BindNew("dark_90", dark_current_90(Val("dark_90")))
    /\ pc' = "dark_current_1000"
    /\ UNCHANGED <<call, disk, ghost>>

DarkCurrent1000 ==
    /\ pc = "dark_current_1000"
    /\ BindNew("dark_1000", dark_current_1000(Val("dark_1000")))
    /\ pc' = "hot_pixels"
    /\ UNCHANGED <<call, disk, ghost>>

\* hot_pixels = (dark_1000.data > 1)
hot_pixels(long) == GreaterThan(long, LongThreshold)

HotPixels ==
    /\ pc = "hot_pixels"
    /\ BindNew("hot_pixels", hot_pixels(Val("dark_1000")))
    /\ pc' = "bad_hot_pixels"
    /\ UNCHANGED <<call, disk, ghost>>

\* a variant that would keep only the pixels also selected by hot_pixels
bad_hot_pixels_gated(short, long) ==
    NDArray("bool", short.nrows, short.ncols,
            [p \in ArrIdx(short) |->
                IF GreaterThan(short, ShortThreshold).data[p] = 1
                   /\ p \in ArrIdx(long)
                   /\ hot_pixels(long).data[p] = 1
                THEN 1 ELSE 0])

\* bad_hot_pixels = (dark_90.data > 4); the long-exposure map is not consulted
bad_hot_pixels(short, long) == GreaterThan(short, ShortThreshold)

BadHotPixels ==
    /\ pc = "bad_hot_pixels"
    /\ BindNew("bad_hot_pixels", bad_hot_pixels(Val("dark_90"), Val("dark_1000")))
    /\ pc' = "mask_as_ccd"
    /\ UNCHANGED <<call, disk, ghost>>

\* mask_as_ccd = CCDData(data=bad_hot_pixels.astype('uint8'), ...)
MaskAsCcd ==
    /\ pc = "mask_as_ccd"
    /\ BindNew("mask_as_ccd", astype_uint8(Val("bad_hot_pixels")))
    /\ pc' = "write_mask"
    /\ UNCHANGED <<call, disk, ghost>>

\* mask_as_ccd.write(ex2_path / 'mask_from_dark_current.fits')
WriteMask ==
    /\ pc = "write_mask"
    /\ disk' = [disk EXCEPT ![F_mask_dark] = Val("mask_as_ccd")]
    /\ pc' = "hot_done"
    /\ UNCHANGED <<call, env, heap, ghost>>

NextHot ==
    \/ ReadDark90
    \/ ReadDark1000
    \/ TrimDark1000
    \/ DarkCurrent90
    \/ DarkCurrent1000
    \/ HotPixels
    \/ BadHotPixels
    \/ MaskAsCcd
    \/ WriteMask

SpecHot == InitHot /\ [][NextHot]_vars

(***************************************************************************)
(* Properties of the hot-pixel notebook.                                   *)
(***************************************************************************)
HotSteps ==
    <<"read_dark_90", "read_dark_1000", "trim_dark_1000", "dark_current_90",
      "dark_current_1000", "hot_pixels", "bad_hot_pixels", "mask_as_ccd",
      "write_mask", "hot_done">>

HotPos(l) == CHOOSE i \in 1 .. Len(HotSteps) : HotSteps[i] = l

\* the statement labelled l has been executed
HotPast(l) == pc \in {HotSteps[i] : i \in (HotPos(l) + 1) .. Len(HotSteps)}

\* the float v is finite and exceeds the number t
Exceeds(v, t) == IsFinite(v) /\ v[1] > t * v[2]

\* the float v is exactly GainNum / GainDen * c / t for the count c
IsGainCountsOverTime(v, c, t) ==
    /\ IsFinite(v)
    /\ v[1] * (GainDen * t) = (GainNum * c) * v[2]

\* C1 as stated: the mask is True at a pixel iff the long-exposure dark current
\* exceeds the long threshold and the short-exposure one the short threshold.
C1_MaskIffBothExceed ==
    HotPast("bad_hot_pixels") =>
        \A p \in ArrIdx(Val("bad_hot_pixels")) :
            Truthy(Val("bad_hot_pixels"), p) <=>
                /\ Exceeds(Val("dark_1000").data[p], LongThreshold)
                /\ Exceeds(Val("dark_90").data[p], ShortThreshold)

\* C1 amended: the mask has the shape of the short-exposure map and is True at a
\* pixel iff the short-exposure dark current exceeds the short threshold, whatever
\* the long-exposure value at that pixel.
C1_MaskIffShortExceeds ==
    HotPast("bad_hot_pixels") =>
        /\ Shape(Val("bad_hot_pixels")) = Shape(Val("dark_90"))
        /\ \A p \in ArrIdx(Val("dark_90")) :
            Truthy(Val("bad_hot_pixels"), p) <=>
                Exceeds(Val("dark_90").data[p], ShortThreshold)

\* a pixel is marked bad although its long-exposure value is under the long threshold
C1_Witness ==
    /\ HotPast("bad_hot_pixels")
    /\ \E p \in ArrIdx(Val("bad_hot_pixels")) :
        /\ Truthy(Val("bad_hot_pixels"), p)
        /\ ~Exceeds(Val("dark_1000").data[p], LongThreshold)
    /\ \E p \in ArrIdx(Val("bad_hot_pixels")) : ~Truthy(Val("bad_hot_pixels"), p)

\* C8: each dark-current map equals gain * counts / exposure time at every pixel of
\* the count array it was computed from and has that array's shape; the 90 s frame
\* is divided by 90 and the 1000 s frame (trimmed to the sensitive columns) by 1000,
\* both with gain 1.5.
C8_DarkCurrentIsGainCountsOverTime ==
    /\ HotPast("dark_current_90") =>
        LET d == Val("dark_90")
            c == disk[F_dark_90]
        IN  /\ Shape(d) = Shape(c)
            /\ \A p \in ArrIdx(c) : IsGainCountsOverTime(d.data[p], c.data[p][1], Exp90)
    /\ HotPast("dark_current_1000") =>
        LET d == Val("dark_1000")
            c == disk[F_dark_1000]
        IN  /\ Shape(d) = <<c.nrows, Min(c.ncols, TrimCols)>>
            /\ \A p \in ArrIdx(d) : IsGainCountsOverTime(d.data[p], c.data[p][1], Exp1000)

\* both maps are computed and some pixel of each holds a hot count
C8_Witness ==
    /\ HotPast("dark_current_1000")
    /\ \E p \in ArrIdx(Val("dark_90")) : disk[F_dark_90].data[p][1] \in ShortHotCounts
    /\ \E p \in ArrIdx(Val("dark_1000")) : disk[F_dark_1000].data[p][1] \in LongHotCounts

(***************************************************************************)
(* Cosmic ray removal notebook (second notebook of the file).              *)
(* Its inputs are the two persisted masks: mask_from_dark_current.fits as  *)
(* the hot-pixel notebook writes it (uint8, 1 at bad pixels, 0 elsewhere)  *)
(* and mask_from_ccdmask.fits, stored the same way.                        *)
(***************************************************************************)
\* 0/1 arrays of the given dtype with at most MaxHot flagged pixels
FlagArrays(dtype, nr, nc) ==
    {NDArray(dtype, nr, nc, [p \in Indices(nr, nc) |-> IF p \in S THEN 1 ELSE 0])
        : S \in HotSets(Indices(nr, nc))}

\* the science frame as CCDData.read returns it: counts in adu, no mask; its pixel
\* values are the counts of the file times the factor gain
Image(nr, nc) ==
    [dtype |-> "CCDData", file |-> F_science, nrows |-> nr, ncols |-> nc,
     unit |-> "adu", gain |-> <<1, 1>>]

\* ccdp.gain_correct(ccd, gain * u.electron / u.adu): a new frame, scaled, whose unit
\* is the frame's unit times electron / adu
gain_correct(ccd, gain) ==
    [ccd EXCEPT !.gain = FMul(@, gain),
                !.unit = IF @ = "adu" THEN "electron" ELSE "electron2 / adu"]

\* arguments of the detector as the notebook writes them
readnoise == 10
sigclip == 7

\* arguments of detect_sources as the notebook writes them
threshold == <<1, 2>>
n_pixels == 3

\* a cosmic ray hit: a straight run of up to n_pixels pixels along a row, a column
\* or a diagonal
Directions == {<<0, 1>>, <<1, 0>>, <<1, 1>>, <<1, -1>>}

Run(start, dir, len) ==
    {<<start[1] + k * dir[1], start[2] + k * dir[2]>> : k \in 0 .. (len - 1)}

RunSets(idx) ==
    {R \in {Run(st, d, l) : st \in idx, d \in Directions, l \in 1 .. n_pixels} :
        R \subseteq idx}

\* what the detector may flag: up to MaxHot single pixels, or one hit
CrArrays(nr, nc) ==
    {NDArray("bool", nr, nc, [p \in Indices(nr, nc) |-> IF p \in S THEN 1 ELSE 0])
        : S \in HotSets(Indices(nr, nc)) \cup RunSets(Indices(nr, nc))}

\* the record of one call of the detector
LacosmicCall(ccd, has_mask, rn, sc) ==
    [file |-> ccd.file, unit |-> ccd.unit, gain |-> ccd.gain, premask |-> has_mask,
     readnoise |-> rn, sigclip |-> sc]

\* a slip that would group by edges only
Adjacent_by_edge(p, q) == Abs(p[1] - q[1]) + Abs(p[2] - q[2]) = 1

\* pixels that touch by an edge or by a corner
Adjacent(p, q) ==
    /\ p # q
    /\ Abs(p[1] - q[1]) <= 1
    /\ Abs(p[2] - q[2]) <= 1

RECURSIVE Grow(_, _)
\* the pixels of A connected to S through pixels of A
Grow(S, A) ==
    LET N == S \cup {q \in A : \E r \in S : Adjacent(r, q)}
    IN  IF N = S THEN S ELSE Grow(N, A)

\* the connected groups of a set of pixels
Segments(A) == {Grow({p}, A) : p \in A}

\* the pixels of data whose value is above the threshold
AboveThreshold(data, thr) ==
    {p \in ArrIdx(data) : data.data[p] * thr[2] > thr[1]}

\* photutils detect_sources(data, threshold, npixels): the connected groups of at
\* least npixels pixels above threshold; None when there is none; npixels must be a
\* positive integer
detect_sources(data, thr, npixels) ==
    IF npixels <= 0 THEN Raised("ValueError")
    ELSE LET segs == {C \in Segments(AboveThreshold(data, thr)) :
                         Cardinality(C) >= npixels}
         IN  IF segs = {} THEN [dtype |-> "NoneType", segments |-> {}]
             ELSE [dtype |-> "SegmentationImage", segments |-> segs]

RECURSIVE SumOver(_, _)
SumOver(data, idx) ==
    IF idx = {} THEN 0
    ELSE LET p == CHOOSE q \in idx : TRUE
         IN  data[p] + SumOver(data, idx \ {p})

\* a.sum()
sum(a) == SumOver(a.data, ArrIdx(a))

InitCR ==
    /\ pc = "read_ccd"
    /\ env = EmptyEnv
    /\ heap = <<>>
    /\ ghost = NoGhost
    /\ call = NoCall
    /\ \E d \in FlagArrays("uint8", NRows, NCols), m \in FlagArrays("uint8", NRows, NCols) :
          disk = [EmptyDisk EXCEPT ![F_mask_dark] = d, ![F_mask_ccdmask] = m,
                                   ![F_science] = Image(NRows, NCols)]

\* ccd = CCDData.read(ex2_path / 'kelt-16-b-S001-R001-C084-r.fit')
ReadCcd ==
    /\ pc = "read_ccd"
    /\ disk[F_science] # NoFile
    /\ BindNew("ccd", disk[F_science])
    /\ pc' = "gain_correct"
    /\ UNCHANGED <<call, disk, ghost>>

\* ccd = ccdp.gain_correct(ccd, 1.5 * u.electron / u.adu)
GainCorrect ==
    /\ pc = "gain_correct"
    /\ BindNew("ccd", gain_correct(Val("ccd"), Gain))
    /\ pc' = "read_dark_mask"
    /\ UNCHANGED <<call, disk, ghost>>

\* dark_mask = CCDData.read(ex2_path / 'mask_from_dark_current.fits', ...)
ReadDarkMask ==
    /\ pc = "read_dark_mask"
    /\ disk[F_mask_dark] # NoFile
    /\ BindNew("dark_mask", disk[F_mask_dark])
    /\ pc' = "read_ccdmask_mask"
    /\ UNCHANGED <<call, disk, ghost>>

\* ccdmask_mask = CCDData.read(ex2_path / 'mask_from_ccdmask.fits', ...)
ReadCcdmaskMask ==
    /\ pc = "read_ccdmask_mask"
    /\ disk[F_mask_ccdmask] # NoFile
    /\ BindNew("ccdmask_mask", disk[F_mask_ccdmask])
    /\ pc' = "combined_mask"
    /\ UNCHANGED <<call, disk, ghost>>

\* combined_mask = dark_mask.data | ccdmask_mask.data
CombinedMask ==
    /\ pc = "combined_mask"
    /\ LET r == bitwise_or(Val("dark_mask"), Val("ccdmask_mask"))
       IN  IF IsArray(r)
           THEN BindNew("combined_mask", r) /\ pc' = "apply_mask"
           ELSE pc' = r.dtype /\ UNCHANGED <<env, heap>>
    /\ UNCHANGED <<call, disk, ghost>>

\* ccd.mask = combined_mask : the frame's mask is the combined array itself
ApplyMask ==
    /\ pc = "apply_mask"
    /\ env' = [env EXCEPT !["ccd.mask"] = env["combined_mask"]]
    /\ pc' = "cosmicray_lacosmic"
    /\ UNCHANGED <<call, heap, disk, ghost>>

\* new_ccd = ccdp.cosmicray_lacosmic(ccd, readnoise=10, sigclip=7, verbose=True)
\* The detector is external: it flags some pixels (crarray, True where a cosmic ray
\* was detected) and returns a new frame whose mask is a new array holding both the
\* flagged pixels and the mask applied to ccd (mask + crarray).
cosmicray_lacosmic_mask(mask, crarray) == add(mask, crarray)

CosmicrayLacosmic ==
    /\ pc = "cosmicray_lacosmic"
    /\ \E crarray \in CrArrays(Val("ccd.mask").nrows, Val("ccd.mask").ncols) :
          LET m == cosmicray_lacosmic_mask(Val("ccd.mask"), crarray)
          IN  /\ BindNew("new_ccd.mask", m)
              /\ ghost' = [ghost EXCEPT !.crarray = crarray, !.raw_mask = m,
                                        !.applied_mask = Val("ccd.mask"),
                                        !.lacosmic = Append(@,
                                            LacosmicCall(Val("ccd"), Bound("ccd.mask"),
                                                         readnoise, sigclip))]
    /\ pc' = "cr_mask"
    /\ UNCHANGED <<call, disk>>

\* cr_mask = new_ccd.mask : a second name for the same array
CrMask ==
    /\ pc = "cr_mask"
    /\ env' = [env EXCEPT !["cr_mask"] = env["new_ccd.mask"]]
    /\ pc' = "cr_mask_assign"
    /\ UNCHANGED <<call, heap, disk, ghost>>

\* cr_mask[ccd.mask] = False : assignment in place, indexed by the frame's mask
CrMaskAssign ==
    /\ pc = "cr_mask_assign"
    /\ LET r == IndexAssignFalse(Val("cr_mask"), Val("ccd.mask"))
       IN  IF IsArray(r)
           THEN heap' = [heap EXCEPT ![env["cr_mask"]] = r] /\ pc' = "mask_sum"
           ELSE pc' = r.dtype /\ UNCHANGED heap
    /\ UNCHANGED <<call, env, disk, ghost>>

\* new_ccd.mask.sum()
MaskSum ==
    /\ pc = "mask_sum"
    /\ BindNew("Out", sum(Val("new_ccd.mask")))
    /\ pc' = "detect_sources"
    /\ UNCHANGED <<call, disk, ghost>>

\* threshold = 0.5; n_pixels = 3
\* crs = detect_sources(new_ccd.mask, threshold, n_pixels)
DetectSources ==
    /\ pc = "detect_sources"
    /\ LET r == detect_sources(Val("new_ccd.mask"), threshold, n_pixels)
       IN  IF r = Raised("ValueError")
           THEN pc' = r.dtype /\ UNCHANGED <<env, heap, ghost>>
           ELSE /\ BindNew("crs", r)
                /\ ghost' = [ghost EXCEPT !.detect =
                       Append(@, [data |-> Val("new_ccd.mask"), crs |-> r,
                                  threshold |-> threshold, n_pixels |-> n_pixels])]
                /\ pc' = "save_mask"
    /\ UNCHANGED <<call, disk>>

\* ccd.mask = new_ccd.mask
SaveMask ==
    /\ pc = "save_mask"
    /\ env' = [env EXCEPT !["ccd.mask"] = env["new_ccd.mask"]]
    /\ pc' = "write_ccd"
    /\ UNCHANGED <<call, heap, disk, ghost>>

\* ccd.write('example-with-cosmic-rays.fits') : the mask is stored as uint8
WriteCcd ==
    /\ pc = "write_ccd"
    /\ disk' = [disk EXCEPT ![F_out] = astype_uint8(Val("ccd.mask"))]
    /\ pc' = "read_ccd_again"
    /\ UNCHANGED <<call, env, heap, ghost>>

\* ccd = CCDData.read(ex2_path / 'kelt-16-b-S001-R001-C084-r.fit') : a new frame,
\* in adu and without mask, replaces the one bound to ccd
ReadCcdAgain ==
    /\ pc = "read_ccd_again"
    /\ disk[F_science] # NoFile
    /\ heap' = Append(heap, disk[F_science])
    /\ env' = [env EXCEPT !["ccd"] = Len(heap) + 1, !["ccd.mask"] = None]
    /\ pc' = "cosmicray_lacosmic_no_premask"
    /\ UNCHANGED <<call, disk, ghost>>

\* new_ccd_no_premask = ccdp.cosmicray_lacosmic(ccd, readnoise=10, sigclip=7, verbose=True)
\* a frame without mask gets the flagged pixels as its mask
CosmicrayLacosmicNoPremask ==
    /\ pc = "cosmicray_lacosmic_no_premask"
    /\ \E crarray \in CrArrays(Val("ccd").nrows, Val("ccd").ncols) :
          BindNew("new_ccd_no_premask.mask",
                  IF Bound("ccd.mask")
                  THEN cosmicray_lacosmic_mask(Val("ccd.mask"), crarray)
                  ELSE crarray)
    /\ ghost' = [ghost EXCEPT !.lacosmic =
                    Append(@, LacosmicCall(Val("ccd"), Bound("ccd.mask"),
                                           readnoise, sigclip))]
    /\ pc' = "detect_sources_no_premask"
    /\ UNCHANGED <<call, disk>>

\* crs_no_premask = detect_sources(new_ccd_no_premask.mask, threshold, n_pixels)
DetectSourcesNoPremask ==
    /\ pc = "detect_sources_no_premask"
    /\ LET r == detect_sources(Val("new_ccd_no_premask.mask"), threshold, n_pixels)
       IN  IF r = Raised("ValueError")
           THEN pc' = r.dtype /\ UNCHANGED <<env, heap, ghost>>
           ELSE /\ BindNew("crs_no_premask", r)
                /\ ghost' = [ghost EXCEPT !.detect =
                       Append(@, [data |-> Val("new_ccd_no_premask.mask"), crs |-> r,
                                  threshold |-> threshold, n_pixels |-> n_pixels])]
                /\ pc' = "cr_done"
    /\ UNCHANGED <<call, disk>>

NextCR ==
    \/ ReadCcd
    \/ GainCorrect
    \/ ReadDarkMask
    \/ ReadCcdmaskMask
    \/ CombinedMask
    \/ ApplyMask
    \/ CosmicrayLacosmic
    \/ CrMask
    \/ CrMaskAssign
    \/ MaskSum
    \/ DetectSources
    \/ SaveMask
    \/ WriteCcd
    \/ ReadCcdAgain
    \/ CosmicrayLacosmicNoPremask
    \/ DetectSourcesNoPremask

SpecCR == InitCR /\ [][NextCR]_vars

(***************************************************************************)
(* Properties of the cosmic-ray notebook.                                  *)
(***************************************************************************)
CRSteps ==
    <<"read_ccd", "gain_correct",
      "read_dark_mask", "read_ccdmask_mask", "combined_mask", "apply_mask",
      "cosmicray_lacosmic", "cr_mask", "cr_mask_assign", "mask_sum",
      "detect_sources", "save_mask", "write_ccd", "read_ccd_again",
      "cosmicray_lacosmic_no_premask", "detect_sources_no_premask", "cr_done">>

CRPos(l) == CHOOSE i \in 1 .. Len(CRSteps) : CRSteps[i] = l

\* the statement labelled l has been executed
CRPast(l) == pc \in {CRSteps[i] : i \in (CRPos(l) + 1) .. Len(CRSteps)}

C4_SubtractLeavesInputsUnchanged ==
    pc = "save_mask" =>
        /\ Val("new_ccd.mask") = ghost.raw_mask
        /\ Val("ccd.mask") = ghost.applied_mask
        /\ env["cr_mask"] # env["new_ccd.mask"]
        /\ env["cr_mask"] # env["ccd.mask"]

RECURSIVE combine(_)
\* masks[1] | masks[2] | ... : the notebook's | folded over a non-empty sequence
combine(masks) ==
    IF Len(masks) = 1 THEN masks[1]
    ELSE bitwise_or(combine(SubSeq(masks, 1, Len(masks) - 1)), masks[Len(masks)])

InitCombine ==
    /\ pc = "call"
    /\ env = EmptyEnv
    /\ heap = <<>>
    /\ disk = EmptyDisk
    /\ ghost = NoGhost
    /\ \E a \in FlagArrays("uint8", NRows, NCols),
          b \in FlagArrays("uint8", NRows, NCols),
          c \in FlagArrays("uint8", NRows, NCols) :
          call = [fn |-> "none", args |-> <<a, b, c>>, result |-> None]

\* combine([a]), combine([a, b]) or combine([a, b, c])
CombineMasks ==
    /\ pc = "call"
    /\ call.fn = "none"
    /\ \E n \in 1 .. Len(call.args) :
          call' = [fn |-> "combine", args |-> SubSeq(call.args, 1, n),
                   result |-> combine(SubSeq(call.args, 1, n))]
    /\ pc' = "returned"
    /\ UNCHANGED <<env, heap, disk, ghost>>

\* a | b, b | a, a | (b | c) and (a | b) | c
CombineOrders ==
    /\ pc = "call"
    /\ call.fn = "none"
    /\ LET a == call.args[1]
           b == call.args[2]
           c == call.args[3]
       IN  call' = [fn |-> "orders", args |-> call.args,
                    result |-> <<combine(<<a, b>>), combine(<<b, a>>),
                                 combine(<<a, combine(<<b, c>>)>>),
                                 combine(<<combine(<<a, b>>), c>>)>>]
    /\ pc' = "returned"
    /\ UNCHANGED <<env, heap, disk, ghost>>

NextCombine == CombineMasks \/ CombineOrders

SpecCombine == InitCombine /\ [][NextCombine]_vars

\* C5: the combined mask has the inputs' shape and is True at a pixel iff at least one
\* input is True there; a single mask combines to itself; all-False inputs combine
\* to an all-False mask.
C5_CombineIsElementwiseOr ==
    call.fn = "combine" =>
        LET ms == call.args
            r == call.result
        IN  /\ IsArray(r)
            /\ Shape(r) = Shape(ms[1])
            /\ \A p \in ArrIdx(ms[1]) :
                  Truthy(r, p) <=> \E i \in 1 .. Len(ms) : Truthy(ms[i], p)
            /\ Len(ms) = 1 => r = ms[1]

\* three masks are combined, some pixel is flagged by exactly one of them and some
\* pixel by none
C5_Witness ==
    /\ call.fn = "combine"
    /\ Len(call.args) = 3
    /\ \E p \in ArrIdx(call.result) :
          Cardinality({i \in 1 .. 3 : Truthy(call.args[i], p)}) = 1
    /\ \E p \in ArrIdx(call.result) : ~Truthy(call.result, p)

\* C6: combine([a, b]) = combine([b, a]) and
\* combine([a, combine([b, c])]) = combine([combine([a, b]), c]).
C6_CombineOrderIndependent ==
    call.fn = "orders" =>
        /\ call.result[1] = call.result[2]
        /\ call.result[3] = call.result[4]

\* the three masks flag three different pixels
C6_Witness ==
    /\ call.fn = "orders"
    /\ call.args[1] # call.args[2]
    /\ call.args[2] # call.args[3]
    /\ call.args[1] # call.args[3]
    /\ \A i \in 1 .. 3 : \E p \in ArrIdx(call.args[i]) : Truthy(call.args[i], p)

(***************************************************************************)
(* The dark-current estimate applied to explicit operands: a count array,  *)
(* a gain and an exposure time, valid or not.  The notebook validates      *)
(* nothing: multiply and divide are applied as they are.                   *)
(***************************************************************************)
Gains == {<<-GainNum, GainDen>>, <<0, 1>>, Gain}

ExposureTimes == {<<-Exp90, 1>>, <<0, 1>>, <<Exp90, 1>>, <<Exp1000, 1>>}

InitDarkCurrent ==
    /\ pc = "call"
    /\ env = EmptyEnv
    /\ heap = <<>>
    /\ disk = EmptyDisk
    /\ ghost = NoGhost
    /\ \E c \in CountArrays(NRows, NCols, Background.short, ShortHotCounts),
          g \in Gains, t \in ExposureTimes :
          call = [fn |-> "none", args |-> <<c, g, t>>, result |-> None]

\* counts.multiply(gain).divide(exposure_time)
ApplyDarkCurrent ==
    /\ pc = "call"
    /\ call.fn = "none"
    /\ call' = [call EXCEPT !.fn = "dark_current",
                            !.result = dark_current(call.args[1], call.args[2], call.args[3])]
    /\ pc' = "returned"
    /\ UNCHANGED <<env, heap, disk, ghost>>

NextDarkCurrent == ApplyDarkCurrent

SpecDarkCurrent == InitDarkCurrent /\ [][NextDarkCurrent]_vars

LongShapes == {<<NRows, NCols>>, <<NRows + 1, NCols>>}

MaskShapes == {<<NRows, NCols>>, <<1, NCols>>, <<NRows + 1, NCols>>}

InitHotShapes ==
    /\ pc = "read_dark_90"
    /\ env = EmptyEnv
    /\ heap = <<>>
    /\ ghost = NoGhost
    /\ call = NoCall
    /\ \E s \in CountArrays(NRows, NCols, Background.short, ShortHotCounts),
          sh \in LongShapes :
          \E l \in CountArrays(sh[1], sh[2], Background.long, LongHotCounts) :
              disk = [EmptyDisk EXCEPT ![F_dark_90] = s, ![F_dark_1000] = WithOverscan(l)]

\* the science frame has NRows x NCols pixels; the mask files are drawn so that
\* their combination either fails or has the frame's shape
InitCRShapes ==
    /\ pc = "read_ccd"
    /\ env = EmptyEnv
    /\ heap = <<>>
    /\ ghost = NoGhost
    /\ call = NoCall
    /\ \E sd \in MaskShapes, sm \in MaskShapes :
          \E d \in FlagArrays("uint8", sd[1], sd[2]), m \in FlagArrays("uint8", sm[1], sm[2]) :
              /\ Broadcastable(d, m) =>
                    <<Max(d.nrows, m.nrows), Max(d.ncols, m.ncols)>> = <<NRows, NCols>>
              /\ disk = [EmptyDisk EXCEPT ![F_mask_dark] = d, ![F_mask_ccdmask] = m,
                                          ![F_science] = Image(NRows, NCols)]

InitShapes == InitHotShapes \/ InitCRShapes

NextShapes == NextHot \/ NextCR

SpecShapes == InitShapes /\ [][NextShapes]_vars

\* C10 as stated: when the two dark-current maps given to the classifier, or the
\* masks given to combine / subtract, differ in shape, the operation fails and no
\* mask is produced.
C10_ShapeMismatchFails ==
    /\ Bound("bad_hot_pixels") => Shape(Val("dark_90")) = Shape(Val("dark_1000"))
    /\ Bound("combined_mask") => Shape(Val("dark_mask")) = Shape(Val("ccdmask_mask"))
    /\ CRPast("cr_mask_assign") => Shape(ghost.raw_mask) = Shape(ghost.applied_mask)

(***************************************************************************)
(* The hot-pixel notebook on combined darks that hold invalid (nan)        *)
(* pixels: the same statements, other input frames.                        *)
(***************************************************************************)
NaN == <<0, 0>>

\* count arrays whose exceptional pixels hold one of the given float values
FloatArrays(nr, nc, bg, values) ==
    UNION {{NDArray("float", nr, nc,
                    [p \in Indices(nr, nc) |-> IF p \in S THEN f[p] ELSE <<bg, 1>>])
              : f \in [S -> values]}
            : S \in HotSets(Indices(nr, nc))}

InitHotNaN ==
    /\ pc = "read_dark_90"
    /\ env = EmptyEnv
    /\ heap = <<>>
    /\ ghost = NoGhost
    /\ call = NoCall
    /\ \E s \in FloatArrays(NRows, NCols, Background.short, {NaN, <<500, 1>>}),
          l \in FloatArrays(NRows, NCols, Background.long, {NaN, <<2000, 1>>}) :
          disk = [EmptyDisk EXCEPT ![F_dark_90] = s, ![F_dark_1000] = WithOverscan(l)]

SpecHotNaN == InitHotNaN /\ [][NextHot]_vars

\* C11 as stated: wherever the short-exposure or the long-exposure dark current is
\* nan, the hot-pixel mask is False.
C11_InvalidNeverBad ==
    HotPast("bad_hot_pixels") =>
        \A p \in ArrIdx(Val("bad_hot_pixels")) :
            (IsNaN(Val("dark_90").data[p]) \/ IsNaN(Val("dark_1000").data[p]))
                => ~Truthy(Val("bad_hot_pixels"), p)

\* C11 amended: wherever the short-exposure dark current is nan (the count read from
\* the 90 s dark is nan), the hot-pixel mask is False; the long-exposure map, nan or
\* not, has no influence on the mask.
C11_ShortInvalidNeverBad ==
    HotPast("bad_hot_pixels") =>
        \A p \in ArrIdx(Val("bad_hot_pixels")) :
            /\ IsNaN(disk[F_dark_90].data[p]) => ~Truthy(Val("bad_hot_pixels"), p)
            /\ IsNaN(disk[F_dark_90].data[p]) <=> IsNaN(Val("dark_90").data[p])

\* the mask is computed from a short-exposure map that holds a nan pixel
C11_Witness ==
    /\ HotPast("bad_hot_pixels")
    /\ \E p \in ArrIdx(Val("bad_hot_pixels")) :
          IsNaN(Val("dark_90").data[p]) /\ ~Truthy(Val("bad_hot_pixels"), p)

(***************************************************************************)
(* The threshold comparison of the classifier applied to one dark-current  *)
(* map under two thresholds t <= t'.                                       *)
(***************************************************************************)
Thresholds == {0, LongThreshold, LongThreshold + 2, ShortThreshold, ShortThreshold + 5}

DarkCurrentMaps ==
    {dark_current_90(c) :
        c \in FloatArrays(NRows, NCols, Background.short, {NaN, <<240, 1>>, <<500, 1>>})}
    \cup
    {dark_current_1000(c) :
        c \in FloatArrays(NRows, NCols, Background.long, {NaN, <<2000, 1>>, <<95000, 1>>})}

InitThresholds ==
    /\ pc = "call"
    /\ env = EmptyEnv
    /\ heap = <<>>
    /\ disk = EmptyDisk
    /\ ghost = NoGhost
    /\ \E m \in DarkCurrentMaps, t \in Thresholds, u \in Thresholds :
          /\ t <= u
          /\ call = [fn |-> "none", args |-> <<m, t, u>>, result |-> None]

\* (m > t) and (m > t') for the same map m
ApplyThresholds ==
    /\ pc = "call"
    /\ call.fn = "none"
    /\ call' = [call EXCEPT !.fn = "thresholds",
                            !.result = <<GreaterThan(call.args[1], call.args[2]),
                                         GreaterThan(call.args[1], call.args[3])>>]
    /\ pc' = "returned"
    /\ UNCHANGED <<env, heap, disk, ghost>>

NextThresholds == ApplyThresholds

SpecThresholds == InitThresholds /\ [][NextThresholds]_vars

\* C12: for a fixed map, the pixels selected under the higher threshold are a subset
\* of the pixels selected under the lower one (candidates for the long-exposure
\* threshold, pixels marked bad for the short-exposure threshold).
C12_ThresholdMonotonic ==
    call.fn = "thresholds" =>
        \A p \in ArrIdx(call.args[1]) :
            Truthy(call.result[2], p) => Truthy(call.result[1], p)

\* the two thresholds differ and select different, non-empty sets of pixels
C12_Witness ==
    /\ call.fn = "thresholds"
    /\ call.args[2] < call.args[3]
    /\ \E p \in ArrIdx(call.args[1]) :
          Truthy(call.result[1], p) /\ ~Truthy(call.result[2], p)

(***************************************************************************)
(* notebooks/03-06-Combine-darks-for-use-in-later-calibration-steps.ipynb  *)
(* The directory of calibrated frames is disk: a sequence of files in      *)
(* listing order, each with the header values the notebook reads.  The two *)
(* example sections run the same cells on their own directory; each starts *)
(* by rebinding calibrated_path and reduced_images.                        *)
(***************************************************************************)
\* most files of a directory of calibrated frames
MaxFrames == 3

\* IMAGETYP header values; FITS header text is free-form, so case varies
ImageTypes == {"DARK", "dark", "BIAS"}

\* EXPTIME header values in seconds
ExpTimes == {<<7, 1>>, <<70, 1>>, <<300, 1>>}

FrameName(i) == "frame_" \o ToString(i) \o ".fit"

\* directories of up to MaxFrames files, in any order, with the given header values
DirectoriesOf(types, times) ==
    UNION {{[i \in 1..n |-> [name |-> FrameName(i), imagetyp |-> h[i].imagetyp,
                              exptime |-> h[i].exptime, combined |-> FALSE]]
              : h \in [1..n -> [imagetyp : types, exptime : times]]}
            : n \in 0..MaxFrames}

\* the directories of calibrated frames
Directories == DirectoriesOf(ImageTypes, ExpTimes)

DarkNames ==
    {"calibrated_path", "reduced_images", "darks", "dark_times", "for.iter",
     "exp_time", "calibrated_darks", "combined_dark", "dark_file_name"}

NoTrace == [trace |-> <<>>]

InitDarks ==
    /\ pc \in {"example1", "example2"}
    /\ env = [n \in DarkNames |-> None]
    /\ heap = <<>>
    /\ disk \in Directories
    /\ ghost = NoTrace
    /\ call = NoCall

\* str.lower() on the header values of the model
lower(s) ==
    IF s = "DARK" THEN "dark" ELSE IF s = "BIAS" THEN "bias" ELSE s

\* ImageFileCollection(path).summary: one row per file, in listing order
summary(dir) ==
    [i \in 1..Len(dir) |->
        [file |-> dir[i].name, imagetyp |-> dir[i].imagetyp, exptime |-> dir[i].exptime]]

RECURSIVE Filter(_, _, _)
\* the rows of table whose index satisfies keep, in order
Filter(table, keep, i) ==
    IF i > Len(table) THEN <<>>
    ELSE (IF keep[i] THEN <<table[i]>> ELSE <<>>) \o Filter(table, keep, i + 1)

\* reduced_images.files_filtered(imagetyp=..., exptime=..., include_path=True):
\* string keywords match without regard to case, numbers by equality
files_filtered(table, path, imagetyp, exptime) ==
    LET keep == [i \in 1..Len(table) |->
                    /\ lower(table[i].imagetyp) = lower(imagetyp)
                    /\ table[i].exptime = exptime]
        rows == Filter(table, keep, 1)
    IN  [i \in 1..Len(rows) |-> <<path, rows[i].file>>]

\* the smallest element of a non-empty set of numbers
Least(S) == CHOOSE x \in S : \A y \in S : ~FGT(x, y)

RECURSIVE sorted_reverse(_)
\* a slip that would write sorted(dark_times, reverse=True)
sorted_reverse(S) ==
    IF S = {} THEN <<>>
    ELSE Append(sorted_reverse(S \ {Least(S)}), Least(S))

RECURSIVE sorted(_)
\* sorted(dark_times): ascending
sorted(S) ==
    IF S = {} THEN <<>>
    ELSE <<Least(S)>> \o sorted(S \ {Least(S)})

\* the keyword arguments of ccdp.combine written in the two loops
Kwargs(example) ==
    IF example = 1
    THEN [method |-> "average", sigma_clip |-> "True",
          sigma_clip_low_thresh |-> "5", sigma_clip_high_thresh |-> "5",
          sigma_clip_func |-> "np.ma.median", sigma_clip_dev_func |-> "mad_std",
          mem_limit |-> "350e6"]
    ELSE [method |-> "average", sigma_clip |-> "True",
          sigma_clip_low_thresh |-> "5", sigma_clip_high_thresh |-> "5",
          sigma_clip_func |-> "np.ma.median", signma_clip_dev_func |-> "mad_std",
          mem_limit |-> "350e6"]

\* the parameters of the combiner that the notebook names
CombineKeywords ==
    {"method", "sigma_clip", "sigma_clip_low_thresh", "sigma_clip_high_thresh",
     "sigma_clip_func", "sigma_clip_dev_func", "mem_limit"}

\* the value each parameter takes in a call: a parameter not passed keeps its default
EffectiveArgs(kwargs) ==
    [k \in CombineKeywords |-> IF k \in DOMAIN kwargs THEN kwargs[k] ELSE "default"]

\* keywords that are no parameter of combine are handed on to the file reader
ccdkwargs(kwargs) == DOMAIN kwargs \ CombineKeywords

\* the file of a directory with the given name
FileNamed(dir, name) == dir[CHOOSE i \in 1..Len(dir) : dir[i].name = name]

\* ccdp.combine(img_list, ...): one frame carrying the header of the first image
combine_frames(img_list, dir) ==
    LET first == FileNamed(dir, img_list[1][2])
    IN  [imagetyp |-> first.imagetyp, exptime |-> first.exptime,
         ncombine |-> Len(img_list), combined |-> FALSE]

\* a loop body that forgets the flag
set_combined_skipped(frame) == frame

\* combined_dark.meta['combined'] = True
set_combined(frame) == [frame EXCEPT !.combined = TRUE]

\* '{:6.3f}'.format(x) for x >= 0: three decimals, at least six characters
format_6_3f(x) ==
    LET num  == 1000 * x[1]
        q    == num \div x[2]
        r    == num % x[2]
        m    == IF 2 * r > x[2] \/ (2 * r = x[2] /\ q % 2 = 1) THEN q + 1 ELSE q
        ip   == m \div 1000
        fp   == m % 1000
        zero == IF fp < 10 THEN "00" ELSE IF fp < 100 THEN "0" ELSE ""
        pad  == IF ip < 10 THEN " " ELSE ""
    IN  pad \o ToString(ip) \o "." \o zero \o ToString(fp)

\* 'combined_dark_{:6.3f}.fit'.format(exp_time)
dark_file_name(exp_time) == "combined_dark_" \o format_6_3f(exp_time) \o ".fit"

\* the example section being run
Example == IF Val("calibrated_path") = "example1-reduced" THEN 1 ELSE 2

\* calibrated_path = Path('example1-reduced') / Path('example2-reduced')
CalibratedPath ==
    /\ pc \in {"example1", "example2"}
    /\ BindNew("calibrated_path",
               IF pc = "example1" THEN "example1-reduced" ELSE "example2-reduced")
    /\ pc' = "image_file_collection"
    /\ UNCHANGED <<call, disk, ghost>>

\* reduced_images = ccdp.ImageFileCollection(calibrated_path)
ImageFileCollection ==
    /\ pc = "image_file_collection"
    /\ BindNew("reduced_images", summary(disk))
    /\ pc' = "darks"
    /\ UNCHANGED <<call, disk, ghost>>

\* darks = reduced_images.summary['imagetyp'] == 'DARK'
Darks ==
    /\ pc = "darks"
    /\ BindNew("darks", [i \in 1..Len(Val("reduced_images")) |->
                            Val("reduced_images")[i].imagetyp = "DARK"])
    /\ pc' = "dark_times"
    /\ UNCHANGED <<call, disk, ghost>>

\* dark_times = set(reduced_images.summary['exptime'][darks])
DarkTimes ==
    /\ pc = "dark_times"
    /\ LET rows == Filter(Val("reduced_images"), Val("darks"), 1)
       IN  BindNew("dark_times", {rows[i].exptime : i \in 1..Len(rows)})
    /\ pc' = "sorted"
    /\ UNCHANGED <<call, disk, ghost>>

\* for exp_time in sorted(dark_times): the list is built once, before the first pass
SortedDarkTimes ==
    /\ pc = "sorted"
    /\ BindNew("for.iter", sorted(Val("dark_times")))
    /\ pc' = "for"
    /\ UNCHANGED <<call, disk, ghost>>

\* for exp_time in ...: bind the next element, or leave the loop when none is left
ForExpTime ==
    /\ pc = "for"
    /\ IF Val("for.iter") = <<>>
           THEN pc' = "done" /\ UNCHANGED <<env, heap>>
           ELSE /\ heap' = [heap EXCEPT ![env["for.iter"]] = Tail(@)] \o
                           <<Head(Val("for.iter"))>>
                /\ env' = [env EXCEPT !["exp_time"] = Len(heap) + 1]
                /\ pc' = "files_filtered"
    /\ UNCHANGED <<call, disk, ghost>>

\* calibrated_darks = reduced_images.files_filtered(imagetyp='dark', exptime=exp_time,
\*                                                  include_path=True)
FilesFiltered ==
    /\ pc = "files_filtered"
    /\ BindNew("calibrated_darks",
               files_filtered(Val("reduced_images"), Val("calibrated_path"),
                              "dark", Val("exp_time")))
    /\ pc' = "combine"
    /\ UNCHANGED <<call, disk, ghost>>

\* combined_dark = ccdp.combine(calibrated_darks, method='average', ...)
\* A keyword that is no parameter of combine reaches the file reader, which either
\* ignores it or rejects it with TypeError, depending on the installed reader.
Combine ==
    /\ pc = "combine"
    /\ \E accepted \in BOOLEAN :
          /\ (ccdkwargs(Kwargs(Example)) = {}) => accepted
          /\ IF accepted
                THEN /\ BindNew("combined_dark", combine_frames(Val("calibrated_darks"), disk))
                     /\ ghost' = [ghost EXCEPT !.trace =
                            Append(@, [op |-> "combine", exptime |-> Val("exp_time"),
                                       files |-> Val("calibrated_darks"),
                                       args |-> EffectiveArgs(Kwargs(Example)),
                                       ccdkwargs |-> ccdkwargs(Kwargs(Example))])]
                     /\ pc' = "set_combined"
                ELSE pc' = "TypeError" /\ UNCHANGED <<env, heap, ghost>>
    /\ UNCHANGED <<call, disk>>

\* combined_dark.meta['combined'] = True
SetCombined ==
    /\ pc = "set_combined"
    /\ heap' = [heap EXCEPT ![env["combined_dark"]] = set_combined(@)]
    /\ pc' = "dark_file_name"
    /\ UNCHANGED <<call, env, disk, ghost>>

\* dark_file_name = 'combined_dark_{:6.3f}.fit'.format(exp_time)
DarkFileName ==
    /\ pc = "dark_file_name"
    /\ BindNew("dark_file_name", dark_file_name(Val("exp_time")))
    /\ pc' = "write"
    /\ UNCHANGED <<call, disk, ghost>>

\* combined_dark.write(calibrated_path / dark_file_name): refuses to replace a file
WriteCombinedDark ==
    /\ pc = "write"
    /\ IF \E i \in 1..Len(disk) : disk[i].name = Val("dark_file_name")
           THEN pc' = "OSError" /\ UNCHANGED <<disk, ghost>>
           ELSE /\ disk' = Append(disk, [name |-> Val("dark_file_name"),
                                         imagetyp |-> Val("combined_dark").imagetyp,
                                         exptime |-> Val("combined_dark").exptime,
                                         combined |-> Val("combined_dark").combined])
                /\ ghost' = [ghost EXCEPT !.trace =
                       Append(@, [op |-> "write", exptime |-> Val("exp_time"),
                                  name |-> Val("dark_file_name"),
                                  frame |-> Val("combined_dark")])]
                /\ pc' = "for"
    /\ UNCHANGED <<call, env, heap>>

NextDarks ==
    \/ CalibratedPath
    \/ ImageFileCollection
    \/ Darks
    \/ DarkTimes
    \/ SortedDarkTimes
    \/ ForExpTime
    \/ FilesFiltered
    \/ Combine
    \/ SetCombined
    \/ DarkFileName
    \/ WriteCombinedDark

SpecDarks == InitDarks /\ [][NextDarks]_vars

(***************************************************************************)
(* Properties of the dark-combination notebook.                            *)
(***************************************************************************)
\* the rows of the collection tagged DARK with the given exposure time
DarkRows(t) ==
    {i \in 1..Len(Val("reduced_images")) :
        /\ Val("reduced_images")[i].imagetyp = "DARK"
        /\ Val("reduced_images")[i].exptime = t}

\* the events of the trace of a kind
Events(op) == {i \in 1..Len(ghost.trace) : ghost.trace[i].op = op}

\* C13: dark_times is exactly the set of exposure times of the frames tagged DARK;
\* for each such time the selected list holds exactly the frames tagged DARK with
\* that exposure time, each once; a time no frame matches gives the empty list.
C13_GroupsAreDarkFramesOfThatTime ==
    /\ Bound("dark_times") =>
          Val("dark_times") = {t \in ExpTimes : DarkRows(t) # {}}
    /\ pc = "combine" =>
          /\ {Val("calibrated_darks")[i][2] : i \in 1..Len(Val("calibrated_darks"))}
                = {Val("reduced_images")[i].file : i \in DarkRows(Val("exp_time"))}
          /\ Len(Val("calibrated_darks")) = Cardinality(DarkRows(Val("exp_time")))
    /\ Bound("reduced_images") =>
          \A t \in ExpTimes :
              DarkRows(t) = {} =>
                  files_filtered(Val("reduced_images"), Val("calibrated_path"),
                                 "dark", t) = <<>>

\* C14: each pass of the loop is a combine followed by one write for the same
\* exposure time; the times handled are dark times, in strictly ascending order (so
\* none is handled twice); when the loop has ended every dark time has been written
\* once and its file is in the directory.
C14_EachTimeOnceAscending ==
    LET tr == ghost.trace
    IN  /\ \A i \in Events("write") :
              i > 1 /\ tr[i - 1].op = "combine" /\ tr[i - 1].exptime = tr[i].exptime
        /\ \A i \in Events("combine") :
              /\ i < Len(tr) => tr[i + 1].op = "write"
              /\ i = Len(tr) => pc \in {"set_combined", "dark_file_name", "write", "OSError"}
              /\ tr[i].exptime \in Val("dark_times")
        /\ \A i, j \in Events("combine") :
              i < j => FGT(tr[j].exptime, tr[i].exptime)
        /\ pc = "done" =>
              \A t \in Val("dark_times") :
                  /\ Cardinality({i \in Events("write") : tr[i].exptime = t}) = 1
                  /\ \E k \in 1..Len(disk) : disk[k].name = dark_file_name(t)

\* the loop has ended after handling at least two exposure times
C14_Witness ==
    /\ pc = "done"
    /\ Cardinality(Val("dark_times")) >= 2
    /\ Cardinality(Events("write")) = Cardinality(Val("dark_times"))

\* C15: every frame the loop writes carries combined = True when it is written, and
\* so does every file the loop has put in the directory.
C15_WrittenFramesAreFlagged ==
    /\ \A i \in Events("write") : ghost.trace[i].frame.combined = TRUE
    /\ \A k \in 1..Len(disk) :
          (\E i \in Events("write") : ghost.trace[i].name = disk[k].name)
              => disk[k].combined = TRUE

\* the loop has written the combined dark of the 300 s frames
C15_Witness ==
    /\ Events("write") # {}
    /\ \E k \in 1..Len(disk) : disk[k].name = dark_file_name(<<300, 1>>)

\* C16: every call of the combiner, in either example, uses the arguments of the
\* Example 1 loop (average, sigma clipping on, thresholds 5 and 5, median centre,
\* mad_std deviation, memory limit 350e6) and nothing else, and runs to completion.
C16_SameCombinerArguments ==
    /\ pc # "TypeError"
    /\ \A i \in Events("combine") :
          /\ ghost.trace[i].args =
                [method |-> "average", sigma_clip |-> "True",
                 sigma_clip_low_thresh |-> "5", sigma_clip_high_thresh |-> "5",
                 sigma_clip_func |-> "np.ma.median", sigma_clip_dev_func |-> "mad_std",
                 mem_limit |-> "350e6"]
          /\ ghost.trace[i].ccdkwargs = {}

(***************************************************************************)
(* The cosmic-ray notebook on a square frame, wide enough for a hit that   *)
(* runs along a diagonal.                                                  *)
(***************************************************************************)
InitCREvents ==
    /\ pc = "read_ccd"
    /\ env = EmptyEnv
    /\ heap = <<>>
    /\ ghost = NoGhost
    /\ call = NoCall
    /\ \E d \in FlagArrays("uint8", NRows, NRows), m \in FlagArrays("uint8", NRows, NRows) :
          disk = [EmptyDisk EXCEPT ![F_mask_dark] = d, ![F_mask_ccdmask] = m,
                                   ![F_science] = Image(NRows, NRows)]

SpecCREvents == InitCREvents /\ [][NextCR]_vars

\* the pixels the detector flagged that the applied defect mask does not cover
CrOnly ==
    {p \in ArrIdx(ghost.crarray) :
        Truthy(ghost.crarray, p) /\ ~Truthy(ghost.applied_mask, p)}

\* S is a run of three pixels along a diagonal
IsDiagonalRun(S) ==
    \E st \in S, d \in {<<1, 1>>, <<1, -1>>} : S = Run(st, d, 3)

\* the first call of detect_sources has returned
Detected == Len(ghost.detect) >= 1

\* C18 as stated: at every call of the detector the frame is in electrons, scaled by
\* the gain; the second call is given the same file and parameters as the first and
\* no mask.
C18_DetectorInputInElectrons ==
    /\ \A i \in 1 .. Len(ghost.lacosmic) :
          /\ ghost.lacosmic[i].unit = "electron"
          /\ ghost.lacosmic[i].gain = Gain
    /\ Len(ghost.lacosmic) >= 2 =>
          /\ ghost.lacosmic[2].file = ghost.lacosmic[1].file
          /\ ghost.lacosmic[2].readnoise = ghost.lacosmic[1].readnoise
          /\ ghost.lacosmic[2].sigclip = ghost.lacosmic[1].sigclip
          /\ ghost.lacosmic[1].premask /\ ~ghost.lacosmic[2].premask

DetectThresholds == {<<-1, 2>>, <<0, 1>>, <<1, 4>>, threshold, <<3, 4>>, <<1, 1>>, <<3, 2>>}

MinSizes == {-1, 0, 1, n_pixels, n_pixels + 1}

InitDetect ==
    /\ pc = "call"
    /\ env = EmptyEnv
    /\ heap = <<>>
    /\ disk = EmptyDisk
    /\ ghost = NoGhost
    /\ \E m \in CrArrays(NRows, NRows), t \in DetectThresholds, n \in MinSizes :
          call = [fn |-> "none", args |-> <<astype_uint8(m), t, n>>, result |-> None]

ApplyDetectSources ==
    /\ pc = "call"
    /\ call.fn = "none"
    /\ call' = [call EXCEPT !.fn = "detect_sources",
                            !.result = detect_sources(call.args[1], call.args[2],
                                                      call.args[3])]
    /\ pc' = "returned"
    /\ UNCHANGED <<env, heap, disk, ghost>>

NextDetect == ApplyDetectSources

SpecDetect == InitDetect /\ [][NextDetect]_vars

Flagged == {p \in ArrIdx(call.args[1]) : call.args[1].data[p] = 1}

\* detect_sources was applied with a threshold in (0, 1) and a positive minimum size
ValidDetect ==
    /\ call.fn = "detect_sources"
    /\ FGT(call.args[2], <<0, 1>>)
    /\ FGT(<<1, 1>>, call.args[2])
    /\ call.args[3] >= 1

\* C17: every event is made of set pixels and has at least min-size pixels; two set
\* pixels that touch by an edge or a corner are in the same event or both in none;
\* a mask whose set pixels form one straight run (along a row, a column or a
\* diagonal) gives that run as its only event when the run has at least min-size
\* pixels and no event otherwise, so a 3-pixel diagonal run gives one event of area
\* 3 with min-size 3 and none with min-size 4.
C17_EventsAreGroupsOfMinSize ==
    ValidDetect =>
        /\ \A C \in call.result.segments :
              C \subseteq Flagged /\ Cardinality(C) >= call.args[3]
        /\ \A p, q \in Flagged :
              (p # q /\ p[1] - q[1] \in -1 .. 1 /\ p[2] - q[2] \in -1 .. 1) =>
                  \A C \in call.result.segments : p \in C <=> q \in C
        /\ Flagged \in RunSets(ArrIdx(call.args[1])) =>
              call.result.segments =
                  IF Cardinality(Flagged) >= call.args[3] THEN {Flagged} ELSE {}

\* a 3-pixel diagonal run was grouped with min-size 3 into one event of area 3
C17_Witness ==
    /\ ValidDetect
    /\ IsDiagonalRun(Flagged)
    /\ call.args[3] = n_pixels
    /\ call.result.segments = {Flagged}
    /\ Cardinality(Flagged) = 3

(***************************************************************************)
(* The dark-combination notebook on frames whose exposure times lie close  *)
(* together: EXPTIME is a float of the header, 7.0001 s and 7.0004 s are   *)
(* distinct values.                                                        *)
(***************************************************************************)
CloseExpTimes == {<<90, 1>>, <<7, 1>>, <<70001, 10000>>, <<70004, 10000>>}

InitDarksClose ==
    /\ pc \in {"example1", "example2"}
    /\ env = [n \in DarkNames |-> None]
    /\ heap = <<>>
    /\ disk \in DirectoriesOf({"DARK", "BIAS"}, CloseExpTimes)
    /\ ghost = NoTrace
    /\ call = NoCall

SpecDarksClose == InitDarksClose /\ [][NextDarks]_vars

\* C22 as stated: the loop names the file of the 90 s darks
\* 'combined_dark_90.000.fit', the name the hot-pixel notebook reads; two distinct
\* dark exposure times never get the same name, so no write meets a file written
\* for another exposure time.
C22_DistinctTimesDistinctNames ==
    /\ (Bound("dark_file_name") /\ pc = "write" /\ Val("exp_time") = <<90, 1>>)
          => Val("dark_file_name") = F_dark_90
    /\ \A i \in Events("write") :
          ghost.trace[i].exptime = <<7, 1>> =>
              ghost.trace[i].name = "combined_dark_ 7.000.fit"
    /\ pc = "write" =>
          \A i \in Events("write") :
              ghost.trace[i].exptime # Val("exp_time")
                  => ghost.trace[i].name # Val("dark_file_name")
    /\ pc # "OSError"

(***************************************************************************)
(* The two notebooks of 08-01 run one after the other: the hot-pixel       *)
(* notebook writes mask_from_dark_current.fits, the cosmic-ray notebook,   *)
(* started afterwards with no variable defined, reads it back.             *)
(***************************************************************************)
InitPipeline ==
    /\ pc = "read_dark_90"
    /\ env = EmptyEnv
    /\ heap = <<>>
    /\ ghost = NoGhost
    /\ call = NoCall
    /\ \E s \in CountArrays(NRows, NCols, Background.short, ShortHotCounts),
          l \in CountArrays(NRows, NCols, Background.long, LongHotCounts),
          m \in FlagArrays("uint8", NRows, NCols) :
          disk = [EmptyDisk EXCEPT ![F_dark_90] = s, ![F_dark_1000] = WithOverscan(l),
                                   ![F_mask_ccdmask] = m,
                                   ![F_science] = Image(NRows, NCols)]

\* the cosmic-ray notebook starts: none of the first notebook's variables exists
StartCosmicRayNotebook ==
    /\ pc = "hot_done"
    /\ env' = EmptyEnv
    /\ heap' = <<>>
    /\ pc' = "read_ccd"
    /\ UNCHANGED <<call, disk, ghost>>

NextPipeline == NextHot \/ StartCosmicRayNotebook \/ NextCR

SpecPipeline == InitPipeline /\ [][NextPipeline]_vars

====
